---- MODULE Spec2Model ----
(***************************************************************************)
(* Model of localstack/services/cloudformation/cloudformation_api.py:      *)
(* the region registry (RegionState), the Stack and StackChangeSet         *)
(* entities and the request handlers of the CloudFormation API.            *)
(*                                                                         *)
(* Python objects are references: Stack objects live in `heap`, their     *)
(* metadata dicts (which are the request parameter dicts themselves) live  *)
(* in `metas`, and fields hold indices into these sequences, so that two   *)
(* objects that share one dict are seen to share it.                       *)
(***************************************************************************)
EXTENDS FiniteSets, Integers, Sequences, TLC

\* ------------------------------------------------------------------------
\* Bounds of the model
\* ------------------------------------------------------------------------
\* number of Stack / StackChangeSet objects constructed in one behaviour
MaxObjs == 3
\* number of stack events one stack records before ExecuteChangeSet stops
MaxEvents == 2
\* number of objects constructed in one behaviour in which reads are sent
MaxReadObjs == 2

\* range(1, 100) in Stack.__init__: indices 1..99 are read
ParamIndexLimit == 100

StackNames == {"A", "B"}
ChangeSetNames == {"c1", "c2"}

\* Python None, and the truth value of a string-or-None
None == "<None>"
Falsy(v) == v \in {None, ""}

\* ------------------------------------------------------------------------
\* Python dicts keep insertion order: a dict is a sequence of [k, v] entries
\* ------------------------------------------------------------------------
Has(d, key) == \E i \in 1..Len(d) : d[i].k = key
Get(d, key) == d[CHOOSE i \in 1..Len(d) : d[i].k = key].v
Put(d, key, val) ==
    IF Has(d, key)
    THEN [i \in 1..Len(d) |-> IF d[i].k = key THEN [k |-> key, v |-> val] ELSE d[i]]
    ELSE Append(d, [k |-> key, v |-> val])
Pop(d, key) == SelectSeq(d, LAMBDA e : e.k # key)
Values(d) == [i \in 1..Len(d) |-> d[i].v]
Range(s) == {s[i] : i \in 1..Len(s)}

\* ------------------------------------------------------------------------
\* Request inputs
\* ------------------------------------------------------------------------
\* a literal value, or a {"Ref": name} node still to be resolved
Lit(s) == [ref |-> FALSE, v |-> s]
Ref(s) == [ref |-> TRUE, v |-> s]

Output(value, export) == [Value |-> value, Export |-> export]
Resource(type) == [Type |-> type, LogicalResourceId |-> None, PhysicalResourceId |-> None]
Param(default) == [Default |-> default]

Template(resources, parameters, conditions, mappings, outputs) ==
    [Resources |-> resources, Parameters |-> parameters, Conditions |-> conditions,
     Mappings |-> mappings, Outputs |-> outputs, StackId |-> None]

\* the parsed template body the requests carry: a resource, a parameter with
\* a default that the request also sets, one with a default only, a
\* condition, a mapping, an exported output and an output without export
TplShared ==
    Template(<<[k |-> "R", v |-> Resource("X")]>>,
             <<[k |-> "P", v |-> Param("dflt")], [k |-> "Q", v |-> Param("q0")]>>,
             <<[k |-> "C", v |-> "cond"]>>,
             <<[k |-> "M", v |-> "map"]>>,
             <<[k |-> "O1", v |-> Output(Ref("P"), "Shared")],
               [k |-> "O2", v |-> Output(Lit("v2"), None)]>>)

\* the flattened Parameters.member.<N>.ParameterKey/Value encoding: entry N of
\* the sequence is the pair sent for index N, key None when index N is absent
Member(key, val) == [ParameterKey |-> key, ParameterValue |-> val]

\* the request bodies sent: a template and the parameters encoded with it
Body(tpl, members) == [tpl |-> tpl, members |-> members]
Bodies == {Body(TplShared, <<Member("P", "p1")>>)}

\* the request parameter dict, as far as the handlers read it
ReqParams(stackName, stackId, csName, members) ==
    [StackName |-> stackName, StackId |-> stackId, StackStatus |-> None,
     ChangeSetName |-> csName, ChangeSetId |-> None, Status |-> None,
     Parameters |-> << >>, Members |-> members]

\* ------------------------------------------------------------------------
\* State
\* ------------------------------------------------------------------------
VARIABLES
    stacks,       \* RegionState.stacks of the region: stack id -> Stack reference
    heap,         \* the Stack and StackChangeSet objects constructed so far
    metas,        \* the metadata dicts of these objects
    uid,          \* number of short_uid() values drawn so far
    response,     \* the last request and what it returned
    ever_registered,  \* history: references of all objects ever put into stacks
    executed,     \* history: per object, id of the change set last executed on it
    threads       \* the requests handled concurrently: each one's position and locals

vars == <<stacks, heap, metas, uid, response, ever_registered, executed,
          threads>>

\* ------------------------------------------------------------------------
\* aws_stack helpers: both ARNs end in the name and a fresh short_uid()
\* ------------------------------------------------------------------------
cloudformation_stack_arn(name, n) == "stack/" \o name \o "/" \o ToString(n)
cf_change_set_arn(name, n) == "changeSet/" \o name \o "/" \o ToString(n)

\* ------------------------------------------------------------------------
\* Stack
\* ------------------------------------------------------------------------
\* lines 85-92: read indices i, i+1, ... and stop at the first missing key
RECURSIVE ParseMembers(_, _)
ParseMembers(members, i) ==
    IF i >= ParamIndexLimit \/ i > Len(members) THEN << >>
    ELSE IF Falsy(members[i].ParameterKey) THEN << >>
    ELSE <<members[i]>> \o ParseMembers(members, i + 1)

\* properties of a Stack object o of heap h with metadata dicts m
stack_name(h, m, o) == m[h[o].metadata].StackName
stack_id(h, m, o) == m[h[o].metadata].StackId
status(h, m, o) == m[h[o].metadata].StackStatus
change_set_id(h, m, o) == m[h[o].metadata].ChangeSetId
change_set_name(h, m, o) == m[h[o].metadata].ChangeSetName

\* Stack.__init__(metadata, template) on the state s = [heap, metas, uid];
\* mid is the reference of the metadata dict, cls the class constructed
StackInit(s, mid, template, cls) ==
    LET md == s.metas[mid]
        gen == Falsy(md.StackId)
        sid == IF gen THEN cloudformation_stack_arn(md.StackName, s.uid + 1)
                      ELSE md.StackId
        res == [i \in 1..Len(template.Resources) |->
                  [k |-> template.Resources[i].k,
                   v |-> [template.Resources[i].v EXCEPT !.LogicalResourceId =
                            IF Falsy(@) THEN template.Resources[i].k ELSE @]]]
        obj == [cls |-> cls,
                metadata |-> mid,
                template |-> [template EXCEPT !.Resources = res, !.StackId = sid],
                resource_states |-> << >>,
                events |-> << >>,
                change_sets |-> << >>,
                stack |-> 0]
    IN [heap |-> Append(s.heap, obj),
        metas |-> [s.metas EXCEPT ![mid] =
                     [md EXCEPT !.StackId = sid,
                                !.Parameters = @ \o ParseMembers(md.Members, 1),
                                !.StackStatus = "CREATE_IN_PROGRESS"]],
        uid |-> IF gen THEN s.uid + 1 ELSE s.uid]

\* Stack.set_stack_status
StackEvent(h, m, o, st) ==
    [StackId |-> stack_id(h, m, o), StackName |-> stack_name(h, m, o),
     LogicalResourceId |-> stack_name(h, m, o), PhysicalResourceId |-> stack_id(h, m, o),
     ResourceStatus |-> st, ResourceType |-> "AWS::CloudFormation::Stack"]

\* a status change that puts its event at the end of the list
set_stack_status_appending(s, o, st) ==
    LET m2 == [s.metas EXCEPT ![s.heap[o].metadata].StackStatus = st]
    IN [s EXCEPT !.metas = m2,
                 !.heap[o].events = @ \o <<StackEvent(s.heap, m2, o, st)>>]

set_stack_status(s, o, st) ==
    LET m2 == [s.metas EXCEPT ![s.heap[o].metadata].StackStatus = st]
    IN [s EXCEPT !.metas = m2,
                 !.heap[o].events = <<StackEvent(s.heap, m2, o, st)>> \o @]

\* Stack.set_resource_status: the runtime state of resource rid, and the
\* ids defaulted on the template's own resource entry
ResourceState(s, o, rid, st, phys) ==
    LET old == IF Has(s.heap[o].resource_states, rid)
               THEN Get(s.heap[o].resource_states, rid)
               ELSE [LogicalResourceId |-> None, PhysicalResourceId |-> None,
                     ResourceStatus |-> None, StackName |-> None, StackId |-> None,
                     ResourceType |-> None]
        dflt(a, b) == IF Falsy(a) THEN b ELSE a
    IN [LogicalResourceId |-> dflt(old.LogicalResourceId, rid),
        PhysicalResourceId |-> dflt(old.PhysicalResourceId, phys),
        ResourceStatus |-> st,
        StackName |-> dflt(old.StackName, stack_name(s.heap, s.metas, o)),
        StackId |-> dflt(old.StackId, stack_id(s.heap, s.metas, o)),
        ResourceType |-> dflt(old.ResourceType, Get(s.heap[o].template.Resources, rid).Type)]

set_resource_status(s, o, rid, st, phys) ==
    LET r == Get(s.heap[o].template.Resources, rid)
        r2 == [r EXCEPT !.LogicalResourceId = IF Falsy(@) THEN rid ELSE @,
                        !.PhysicalResourceId = IF Falsy(@) THEN phys ELSE @]
    IN [s EXCEPT !.heap[o].resource_states = Put(@, rid, ResourceState(s, o, rid, st, phys)),
                 !.heap[o].template.Resources = Put(@, rid, r2)]

\* Stack.stack_parameters(defaults): a dict keyed by ParameterKey, as a list
RECURSIVE ParamDict(_)
ParamDict(ps) ==
    IF ps = << >> THEN << >>
    ELSE LET n == Len(ps)
         IN Put(ParamDict(SubSeq(ps, 1, n - 1)), ps[n].ParameterKey, ps[n])

RECURSIVE AddDefaults(_, _)
AddDefaults(d, tps) ==
    IF tps = << >> THEN d
    ELSE LET key == Head(tps).k
             nd == IF Has(d, key) THEN d
                   ELSE Put(d, key, Member(key, Head(tps).v.Default))
         IN AddDefaults(nd, Tail(tps))

stack_parameters(h, m, o, defaults) ==
    LET explicit == ParamDict(m[h[o].metadata].Parameters)
    IN Values(IF defaults THEN AddDefaults(explicit, h[o].template.Parameters)
              ELSE explicit)

\* Stack.resources: template resources, then explicit parameters, conditions,
\* mappings and defaulted parameters, each only under a name not yet taken
Pseudo(name, val) ==
    [Type |-> "Parameter", LogicalResourceId |-> name, PhysicalResourceId |-> None,
     Value |-> val]

RECURSIVE add_params(_, _)
add_params(result, ps) ==
    IF ps = << >> THEN result
    ELSE LET p == Head(ps)
             r2 == IF Has(result, p.ParameterKey) THEN result
                   ELSE Put(result, p.ParameterKey, Pseudo(p.ParameterKey, p.ParameterValue))
         IN add_params(r2, Tail(ps))

RECURSIVE add_named(_, _)
add_named(result, d) ==
    IF d = << >> THEN result
    ELSE LET r2 == IF Has(result, Head(d).k) THEN result
                   ELSE Put(result, Head(d).k, Pseudo(Head(d).k, Head(d).v))
         IN add_named(r2, Tail(d))

\* a resolution that layers the conditions under the explicit parameters
resources_conditions_first(h, m, o) ==
    LET t == h[o].template
        r0 == [i \in 1..Len(t.Resources) |->
                 [k |-> t.Resources[i].k,
                  v |-> [Type |-> t.Resources[i].v.Type,
                         LogicalResourceId |-> t.Resources[i].v.LogicalResourceId,
                         PhysicalResourceId |-> t.Resources[i].v.PhysicalResourceId,
                         Value |-> None]]]
        r1 == add_named(r0, t.Conditions)
        r2 == add_params(r1, stack_parameters(h, m, o, FALSE))
        r3 == add_named(r2, t.Mappings)
    IN add_params(r3, stack_parameters(h, m, o, TRUE))

resources(h, m, o) ==
    LET t == h[o].template
        r0 == [i \in 1..Len(t.Resources) |->
                 [k |-> t.Resources[i].k,
                  v |-> [Type |-> t.Resources[i].v.Type,
                         LogicalResourceId |-> t.Resources[i].v.LogicalResourceId,
                         PhysicalResourceId |-> t.Resources[i].v.PhysicalResourceId,
                         Value |-> None]]]
        r1 == add_params(r0, stack_parameters(h, m, o, FALSE))
        r2 == add_named(r1, t.Conditions)
        r3 == add_named(r2, t.Mappings)
    IN add_params(r3, stack_parameters(h, m, o, TRUE))

\* Stack._lookup: the entry of resource_id in a sequence of one element, the
\* empty sequence where the code raises Exception
_lookup(resource_map, resource_id) ==
    IF Has(resource_map, resource_id) THEN <<Get(resource_map, resource_id)>> ELSE << >>

\* template_deployer.resolve_refs_recursively on one output's details: a Ref
\* to a name of the resolved resources is replaced, in place, by its value
resolve_refs_recursively(details, res) ==
    IF details.Value.ref /\ Has(res, details.Value.v)
    THEN LET e == Get(res, details.Value.v)
             val == IF e.Type = "Parameter" THEN e.Value ELSE e.PhysicalResourceId
         IN IF Falsy(val) THEN details ELSE [details EXCEPT !.Value = Lit(val)]
    ELSE details

\* Stack.outputs: the template's Outputs as the property leaves them ...
OutputsResolved(h, m, o) ==
    [i \in 1..Len(h[o].template.Outputs) |->
        [k |-> h[o].template.Outputs[i].k,
         v |-> resolve_refs_recursively(h[o].template.Outputs[i].v, resources(h, m, o))]]

\* ... and the list it returns
outputs(h, m, o) ==
    LET d == OutputsResolved(h, m, o)
    IN [i \in 1..Len(d) |->
          [OutputKey |-> d[i].k, OutputValue |-> d[i].v.Value, ExportName |-> d[i].v.Export]]

\* the heap after the outputs of every stack of the sequence os were read
RECURSIVE ReadOutputs(_, _, _)
ReadOutputs(h, m, os) ==
    IF os = << >> THEN h
    ELSE ReadOutputs([h EXCEPT ![Head(os)].template.Outputs = OutputsResolved(h, m, Head(os))],
                     m, Tail(os))

\* RegionState.exports: every output entry carries the key 'ExportName', so
\* the test of line 40 skips none
RECURSIVE Flatten(_)
Flatten(ss) == IF ss = << >> THEN << >> ELSE Head(ss) \o Flatten(Tail(ss))

ExportEntries(h, m, o) ==
    LET outs == outputs(h, m, o)
    IN [i \in 1..Len(outs) |->
          [ExportingStackId |-> stack_id(h, m, o), Name |-> outs[i].ExportName,
           Value |-> outs[i].OutputValue]]

\* an export list that keeps only the first entry of each name
RECURSIVE FirstOfName(_)
FirstOfName(es) ==
    IF es = << >> THEN << >>
    ELSE LET n == Len(es)
             front == FirstOfName(SubSeq(es, 1, n - 1))
         IN IF \E i \in 1..Len(front) : front[i].Name = es[n].Name
            THEN front ELSE Append(front, es[n])

exports_unique(reg, h, m) ==
    FirstOfName(Flatten([i \in 1..Len(reg) |-> ExportEntries(h, m, reg[i].v)]))

exports(reg, h, m) == Flatten([i \in 1..Len(reg) |-> ExportEntries(h, m, reg[i].v)])

\* Stack.exports_map: the exports keyed by name, a later entry replacing an
\* earlier one of the same name
RECURSIVE exports_map_of(_)
exports_map_of(es) ==
    IF es = << >> THEN << >>
    ELSE LET n == Len(es)
         IN Put(exports_map_of(SubSeq(es, 1, n - 1)), es[n].Name, es[n])

exports_map(reg, h, m) == exports_map_of(exports(reg, h, m))

\* ------------------------------------------------------------------------
\* Lookups
\* ------------------------------------------------------------------------
\* find_stack: the first stack of that name in registry order, 0 for None
find_stack(reg, h, m, name) ==
    LET hits == SelectSeq(Values(reg), LAMBDA o : name = stack_name(h, m, o))
    IN IF hits = << >> THEN 0 ELSE hits[1]

\* find_change_set: the first change set whose id or name is cs_name, in the
\* named stack if there is one, else in all stacks; 0 for None
find_change_set(reg, h, m, cs_name, name) ==
    LET st == find_stack(reg, h, m, name)
        ss == IF st # 0 THEN <<st>> ELSE Values(reg)
        all == Flatten([i \in 1..Len(ss) |-> h[ss[i]].change_sets])
        hits == SelectSeq(all, LAMBDA c :
                    cs_name \in {change_set_id(h, m, c), change_set_name(h, m, c)})
    IN IF hits = << >> THEN 0 ELSE hits[1]

\* ------------------------------------------------------------------------
\* StackChangeSet.__init__(params, template): a Stack, then the change-set
\* id, the target stack found by name, and that stack's id as StackId
\* ------------------------------------------------------------------------
\* a change set that keeps the StackId generated for itself
change_set_stack_id_own(own, target_id) == own

\* line 230: the StackId a change set records, given the one Stack.__init__
\* left in its metadata and the id of the target stack
change_set_stack_id(own, target_id) == target_id

StackChangeSetInit(s, reg, mid, template) ==
    LET s1 == StackInit(s, mid, template, "StackChangeSet")
        o == Len(s1.heap)
        md == s1.metas[mid]
        gen == Falsy(md.ChangeSetId)
        csid == IF gen THEN cf_change_set_arn(md.ChangeSetName, s1.uid + 1)
                       ELSE md.ChangeSetId
        target == find_stack(reg, s1.heap, s1.metas, md.StackName)
    IN [heap |-> [s1.heap EXCEPT ![o].stack = target],
        metas |-> [s1.metas EXCEPT ![mid] =
                     [md EXCEPT !.ChangeSetId = csid,
                                !.StackId = change_set_stack_id(
                                                md.StackId, stack_id(s1.heap, s1.metas, target)),
                                !.Status = "CREATE_PENDING"]],
        uid |-> IF gen THEN s1.uid + 1 ELSE s1.uid]

\* ------------------------------------------------------------------------
\* template_deployer.TemplateDeployer, by its contract: each call either
\* raises and leaves the stack as it was, or returns after recording the
\* resources and the stack's new status
\* ------------------------------------------------------------------------
RECURSIVE deploy_resources(_, _, _, _)
deploy_resources(s, o, rids, st) ==
    IF rids = << >> THEN s
    ELSE deploy_resources(set_resource_status(s, o, Head(rids), st, "phys-" \o Head(rids)),
                          o, Tail(rids), st)

ResourceIds(t) == [i \in 1..Len(t.Resources) |-> t.Resources[i].k]

deployer_deploy_stack(s, o) ==
    set_stack_status(
        deploy_resources(s, o, ResourceIds(s.heap[o].template), "CREATE_COMPLETE"),
        o, "CREATE_COMPLETE")

\* the stack o takes over the template of the target-state entity n
adopt_template(s, o, n, st) ==
    LET t == [s.heap[n].template EXCEPT !.StackId = s.heap[o].template.StackId]
        s1 == [s EXCEPT !.heap[o].template = t, !.heap[o].resource_states = << >>]
    IN deploy_resources(s1, o, ResourceIds(t), st)

deployer_update_stack(s, o, n) ==
    set_stack_status(adopt_template(s, o, n, "UPDATE_COMPLETE"), o, "UPDATE_COMPLETE")

deployer_delete_stack(s, o) == s

deployer_apply_change_set(s, c) ==
    LET o == s.heap[c].stack
        st == IF status(s.heap, s.metas, o) = "CREATE_IN_PROGRESS"
              THEN "CREATE_COMPLETE" ELSE "UPDATE_COMPLETE"
        s1 == set_stack_status(adopt_template(s, o, c, st), o, st)
    IN [s1 EXCEPT !.metas[s.heap[c].metadata].Status = "EXECUTE_COMPLETE"]

\* ------------------------------------------------------------------------
\* Responses
\* ------------------------------------------------------------------------
\* kind: "ok" a result document, "error" an error_response, "raise" an
\* exception that left the handler. stack_name, cs_name, target and engine
\* are bookkeeping: the StackName of a stack request, the ChangeSetName of a
\* successful DeleteChangeSet, the object the request resolved to (the one it
\* constructed, for a create) and how the engine call ended. resource_id is
\* the resource id a lookup was asked for and Items the list a read returns.
Resp(op, kind) ==
    [op |-> op, kind |-> kind, code |-> 0, code_string |-> None,
     StackId |-> None, Id |-> None, Exports |-> << >>,
     stack_name |-> None, cs_name |-> None, target |-> 0, engine |-> None,
     resource_id |-> None, Items |-> << >>]

\* error_response(msg, code=..., code_string=...); code 0 and code_string
\* None stand for the defaults of flask_error_response_xml
error_response(r, code, code_string) ==
    [r EXCEPT !.kind = "error", !.code = code, !.code_string = code_string]

State == [heap |-> heap, metas |-> metas, uid |-> uid]

Grow(e, h) == e \o [i \in 1..(Len(h) - Len(e)) |-> None]

Commit(s) ==
    /\ heap' = s.heap
    /\ metas' = s.metas
    /\ uid' = s.uid

\* state.stacks[stack.stack_id] = stack
register(reg, h, m, o) == Put(reg, stack_id(h, m, o), o)

\* ------------------------------------------------------------------------
\* API endpoints
\* ------------------------------------------------------------------------
\* a handler that answers with the error and records no status
create_stack_failed_silent(s, o) == s

\* lines 256-257: the handler of a deploy that raised
create_stack_failed(s, o) == set_stack_status(s, o, "CREATE_FAILED")

create_stack(name, sid, tpl, members, engine_ok) ==
    /\ Len(heap) < MaxObjs
    /\ LET mid == Len(metas) + 1
           s0 == [State EXCEPT !.metas = Append(@, ReqParams(name, sid, None, members))]
           s1 == StackInit(s0, mid, tpl, "Stack")
           o == Len(s1.heap)
           s2 == IF engine_ok THEN deployer_deploy_stack(s1, o)
                 ELSE create_stack_failed(s1, o)
           r == [Resp("CreateStack", "ok") EXCEPT
                    !.stack_name = name, !.target = o, !.engine = IF engine_ok THEN "ok" ELSE "raise"]
       IN /\ stacks' = register(stacks, s1.heap, s1.metas, o)
          /\ Commit(s2)
          /\ ever_registered' = ever_registered \cup {o}
          /\ executed' = Grow(executed, s2.heap)
          /\ response' = IF engine_ok
                          THEN [r EXCEPT !.StackId = stack_id(s2.heap, s2.metas, o)]
                          ELSE error_response(r, 400, "ValidationError")

\* a pop placed before the engine call
pop_deleted_first(reg, sid, engine_ok) == Pop(reg, sid)

\* lines 270-271: the pop is reached only when the engine's delete returned
pop_deleted(reg, sid, engine_ok) == IF engine_ok THEN Pop(reg, sid) ELSE reg

delete_stack(name, engine_ok) ==
    LET stack == find_stack(stacks, heap, metas, name)
        r == [Resp("DeleteStack", "ok") EXCEPT !.stack_name = name, !.target = stack]
    IN IF stack = 0
       THEN \* the engine, or line 271, fails on None
            /\ response' = [r EXCEPT !.kind = "raise"]
            /\ UNCHANGED <<stacks, heap, metas, uid, ever_registered, executed>>
       ELSE /\ Commit(IF engine_ok THEN deployer_delete_stack(State, stack) ELSE State)
            /\ stacks' = pop_deleted(stacks, stack_id(heap, metas, stack), engine_ok)
            /\ response' = IF engine_ok THEN [r EXCEPT !.engine = "ok"]
                            ELSE [r EXCEPT !.kind = "raise", !.engine = "raise"]
            /\ UNCHANGED <<ever_registered, executed>>

\* the failure recorded on the target-state entity instead of the old stack
update_stack_failed_on_new(s, stack, new_stack) ==
    set_stack_status(s, new_stack, "UPDATE_FAILED")

\* lines 287-288: the handler of an update that raised
update_stack_failed(s, stack, new_stack) == set_stack_status(s, stack, "UPDATE_FAILED")

update_stack(name, sid, tpl, members, engine_ok) ==
    LET stack == find_stack(stacks, heap, metas, name)
        r == [Resp("UpdateStack", "ok") EXCEPT !.stack_name = name, !.target = stack]
    IN IF stack = 0
       THEN /\ response' = error_response(r, 404, "ValidationError")
            /\ UNCHANGED <<stacks, heap, metas, uid, ever_registered, executed>>
       ELSE /\ Len(heap) < MaxObjs
            /\ LET mid == Len(metas) + 1
                   s0 == [State EXCEPT !.metas = Append(@, ReqParams(name, sid, None, members))]
                   s1 == StackInit(s0, mid, tpl, "Stack")
                   new_stack == Len(s1.heap)
                   s2 == IF engine_ok THEN deployer_update_stack(s1, stack, new_stack)
                         ELSE update_stack_failed(s1, stack, new_stack)
               IN /\ Commit(s2)
                  /\ executed' = Grow(executed, s2.heap)
                  /\ response' =
                        IF engine_ok
                        THEN [r EXCEPT !.StackId = stack_id(s2.heap, s2.metas, stack),
                                       !.engine = "ok"]
                        ELSE error_response([r EXCEPT !.engine = "raise"],
                                            400, "ValidationError")
                  /\ UNCHANGED <<stacks, ever_registered>>

\* a placeholder that keeps the resources of the template
empty_stack_template_kept(tpl) == tpl

\* lines 361-362
empty_stack_template(tpl) == [tpl EXCEPT !.Resources = << >>]

create_change_set(name, cs_name, sid, tpl, members) ==
    LET existing == find_stack(stacks, heap, metas, name)
        mid == Len(metas) + 1
        s0 == [State EXCEPT !.metas = Append(@, ReqParams(name, sid, cs_name, members))]
        \* automatically create (empty) stack if none exists yet
        s1 == IF existing = 0
              THEN StackInit(s0, mid, empty_stack_template(tpl), "Stack")
              ELSE s0
        stack == IF existing = 0 THEN Len(s1.heap) ELSE existing
        reg == IF existing = 0 THEN register(stacks, s1.heap, s1.metas, stack) ELSE stacks
        s2 == StackChangeSetInit(s1, reg, mid, tpl)
        change_set == Len(s2.heap)
        s3 == [s2 EXCEPT !.heap[stack].change_sets = Append(@, change_set)]
    IN /\ Len(heap) + (IF existing = 0 THEN 2 ELSE 1) <= MaxObjs
       /\ stacks' = reg
       /\ Commit(s3)
       /\ ever_registered' = IF existing = 0 THEN ever_registered \cup {stack} ELSE ever_registered
       /\ executed' = Grow(executed, s3.heap)
       /\ response' = [Resp("CreateChangeSet", "ok") EXCEPT
                          !.stack_name = name,
                          !.StackId = stack_id(s3.heap, s3.metas, change_set),
                          !.Id = change_set_id(s3.heap, s3.metas, change_set),
                          !.target = change_set]

execute_change_set(cs_name, name, engine_ok) ==
    LET change_set == find_change_set(stacks, heap, metas, cs_name, name)
        r == [Resp("ExecuteChangeSet", "ok") EXCEPT !.target = change_set]
    IN IF change_set = 0
       THEN /\ response' = error_response(Resp("ExecuteChangeSet", "error"),
                                           0, None)
            /\ UNCHANGED <<stacks, heap, metas, uid, ever_registered, executed>>
       ELSE IF ~engine_ok
       THEN /\ response' = [r EXCEPT !.kind = "raise", !.engine = "raise"]
            /\ UNCHANGED <<stacks, heap, metas, uid, ever_registered, executed>>
       ELSE LET stack == heap[change_set].stack
                s1 == deployer_apply_change_set(State, change_set)
                s2 == [s1 EXCEPT !.metas[s1.heap[stack].metadata].ChangeSetId =
                                    change_set_id(s1.heap, s1.metas, change_set)]
            IN /\ Len(heap[stack].events) < MaxEvents
               /\ Commit(s2)
               /\ executed' = [executed EXCEPT ![stack] =
                                  change_set_id(heap, metas, change_set)]
               /\ response' = [r EXCEPT !.engine = "ok"]
               /\ UNCHANGED <<stacks, ever_registered>>

list_exports ==
    /\ response' = [Resp("ListExports", "ok") EXCEPT
                       !.Exports = exports(stacks, heap, metas)]
    /\ heap' = ReadOutputs(heap, metas, Values(stacks))
    /\ UNCHANGED <<stacks, metas, uid, ever_registered, executed>>

\* the list comprehension of line 418
keep_change_sets(h, m, css, cs_name) ==
    SelectSeq(css, LAMBDA c : change_set_name(h, m, c) # cs_name)

\* a delete that also discards the resource states an execution left
assign_change_sets_rolled_back(h, m, stack, cs_name) ==
    [h EXCEPT ![stack].change_sets = keep_change_sets(h, m, @, cs_name),
              ![stack].resource_states = << >>]

\* line 418: the assignment to change_set.stack.change_sets
assign_change_sets(h, m, stack, cs_name) ==
    [h EXCEPT ![stack].change_sets = keep_change_sets(h, m, @, cs_name)]

delete_change_set(cs_name, name) ==
    LET change_set == find_change_set(stacks, heap, metas, cs_name, name)
        r == [Resp("DeleteChangeSet", "ok") EXCEPT !.target = change_set,
                                                   !.cs_name = cs_name]
    IN IF change_set = 0
       THEN /\ response' = error_response(Resp("DeleteChangeSet", "error"),
                                           0, None)
            /\ UNCHANGED <<stacks, heap, metas, uid, ever_registered, executed>>
       ELSE /\ heap' = assign_change_sets(heap, metas, heap[change_set].stack, cs_name)
            /\ response' = r
            /\ UNCHANGED <<stacks, metas, uid, ever_registered, executed>>

\* ------------------------------------------------------------------------
\* Requests
\* ------------------------------------------------------------------------
\* a client may send any field with a request, a StackId among them; the one
\* sent here is the id that the latest registration returned
LatestRegistered == {o \in ever_registered : \A x \in ever_registered : x <= o}
StackIdParams == {None} \cup {stack_id(heap, metas, o) : o \in LatestRegistered}

\* a change set is named in a request by its name or by its id
ChangeSetRefs ==
    ChangeSetNames \cup
    {change_set_id(heap, metas, c) :
        c \in {x \in 1..Len(heap) : heap[x].cls = "StackChangeSet"}}

Init ==
    /\ stacks = << >>
    /\ heap = << >>
    /\ metas = << >>
    /\ uid = 0
    /\ response = Resp(None, "ok")
    /\ ever_registered = {}
    /\ executed = << >>
    /\ threads = << >>

CreateStack ==
    /\ \E name \in StackNames, sid \in StackIdParams, body \in Bodies, engine_ok \in BOOLEAN :
           create_stack(name, sid, body.tpl, body.members, engine_ok)
    /\ UNCHANGED threads

DeleteStack ==
    /\ \E name \in StackNames, engine_ok \in BOOLEAN : delete_stack(name, engine_ok)
    /\ UNCHANGED threads

UpdateStack ==
    /\ \E name \in StackNames, body \in Bodies, engine_ok \in BOOLEAN :
           update_stack(name, None, body.tpl, body.members, engine_ok)
    /\ UNCHANGED threads

CreateChangeSet ==
    /\ \E name \in StackNames, cs_name \in ChangeSetNames, sid \in StackIdParams,
          body \in Bodies :
           create_change_set(name, cs_name, sid, body.tpl, body.members)
    /\ UNCHANGED threads

ExecuteChangeSet ==
    /\ \E cs_name \in ChangeSetRefs, name \in StackNames \cup {None}, engine_ok \in BOOLEAN :
           execute_change_set(cs_name, name, engine_ok)
    /\ UNCHANGED threads

DeleteChangeSet ==
    /\ \E cs_name \in ChangeSetRefs, name \in StackNames \cup {None} :
           delete_change_set(cs_name, name)
    /\ UNCHANGED threads

ListExports == list_exports /\ UNCHANGED threads

Next ==
    \/ CreateStack
    \/ DeleteStack
    \/ UpdateStack
    \/ CreateChangeSet
    \/ ExecuteChangeSet
    \/ DeleteChangeSet
    \/ ListExports

Spec == Init /\ [][Next]_vars

\* ------------------------------------------------------------------------
\* Properties
\* ------------------------------------------------------------------------
\* the Stack objects in the registry
Registered == Range(Values(stacks))
\* the change sets in the list of stack o of heap h
ChangeSetsOf(h, o) == Range(h[o].change_sets)

\* C1: any two stacks that were ever registered, deleted ones included, have
\* different identifiers.
C1_IdentifiersUnique ==
    \A a \in ever_registered : \A b \in ever_registered :
        a # b => stack_id(heap, metas, a) # stack_id(heap, metas, b)

\* C2: after a CreateStack whose deploy raised, the new stack is in the
\* registry under its id with status CREATE_FAILED, and the response is a
\* ValidationError that carries no StackId.
C2_CreateFailureRecorded ==
    (response.op = "CreateStack" /\ response.engine = "raise") =>
        /\ Has(stacks, stack_id(heap, metas, response.target))
        /\ Get(stacks, stack_id(heap, metas, response.target)) = response.target
        /\ status(heap, metas, response.target) = "CREATE_FAILED"
        /\ response.kind = "error"
        /\ response.code_string = "ValidationError"
        /\ response.StackId = None

C2_Witness ==
    /\ response.op = "CreateStack"
    /\ response.engine = "raise"
    /\ response.target \in Registered

\* C3: a DeleteStack whose engine delete raises ends in an exception and
\* leaves the registry and every stack as they were, and a DeleteStack step
\* takes an entry out of the registry only when the engine's delete returned.
C3_DeleteFailureKeepsStack ==
    [][(response'.op = "DeleteStack") =>
          /\ (response'.engine = "raise") =>
                /\ response'.kind = "raise"
                /\ stacks' = stacks
                /\ Get(stacks', stack_id(heap, metas, response'.target)) = response'.target
                /\ stack_id(heap', metas', response'.target)
                      = stack_id(heap, metas, response'.target)
                /\ status(heap', metas', response'.target)
                      = status(heap, metas, response'.target)
          /\ (stacks' # stacks) => response'.engine = "ok"]_vars

C3_Witness ==
    /\ response.op = "DeleteStack"
    /\ response.engine = "raise"
    /\ response.kind = "raise"
    /\ response.target \in Registered

\* C4: an UpdateStack whose engine update raised leaves the old stack with
\* status UPDATE_FAILED and returns an error; an UpdateStack for a name that
\* no registered stack has returns a 404 error and changes nothing.
C4_UpdateFailures ==
    [][(response'.op = "UpdateStack") =>
          /\ (response'.engine = "raise") =>
                /\ response'.target \in Registered
                /\ stack_name(heap, metas, response'.target) = response'.stack_name
                /\ status(heap', metas', response'.target) = "UPDATE_FAILED"
                /\ response'.kind = "error"
          /\ (\A o \in Registered : stack_name(heap, metas, o) # response'.stack_name) =>
                /\ response'.kind = "error"
                /\ response'.code = 404
                /\ UNCHANGED <<stacks, heap, metas, uid>>]_vars

C4_Witness ==
    /\ response.op = "UpdateStack"
    /\ response.engine = "raise"
    /\ status(heap, metas, response.target) = "UPDATE_FAILED"

\* C5: a stack leaves the registry only in a successful DeleteStack that
\* resolved to it, and an UpdateStack leaves the registry as it was, the
\* target-state entity it constructed not being in it.
C5_LeavesOnlyByDelete ==
    [][/\ \A o \in Registered :
             o \notin Registered' =>
                /\ response'.op = "DeleteStack"
                /\ response'.kind = "ok"
                /\ response'.target = o
       /\ (response'.op = "UpdateStack") => stacks' = stacks]_vars

\* C6: a CreateChangeSet for a name that no registered stack has puts exactly
\* one new stack into the registry, of that name and without resources, whose
\* only change set targets it and is CREATE_PENDING; a CreateChangeSet for the
\* name of a registered stack puts no new stack into the registry.
C6_AutoCreate ==
    [][(response'.op = "CreateChangeSet") =>
          LET new == Registered' \ Registered
          IN IF \A o \in Registered : stack_name(heap, metas, o) # response'.stack_name
             THEN /\ Cardinality(new) = 1
                  /\ \A o \in new :
                        /\ stack_name(heap', metas', o) = response'.stack_name
                        /\ heap'[o].template.Resources = << >>
                        /\ resources(heap', metas', o) # << >>
                              => \A i \in 1..Len(resources(heap', metas', o)) :
                                    resources(heap', metas', o)[i].v.Type = "Parameter"
                        /\ heap'[o].change_sets = <<response'.target>>
                        /\ heap'[response'.target].stack = o
                        /\ stack_id(heap', metas', response'.target)
                              = stack_id(heap', metas', o)
                        /\ metas'[heap'[response'.target].metadata].Status
                              = "CREATE_PENDING"
             ELSE new = {}]_vars

C6_Witness ==
    /\ response.op = "CreateChangeSet"
    /\ response.target > 1
    /\ heap[response.target].stack = response.target - 1
    /\ heap[response.target - 1].template.Resources = << >>
    /\ heap[response.target - 1].change_sets = <<response.target>>
    /\ response.target - 1 \in Registered

\* C7: every change set in the list of a registered stack has that stack as
\* its target and records that stack's id as StackId, and no change set is in
\* the lists of two registered stacks.
C7_ChangeSetsBound ==
    /\ \A o \in Registered : \A c \in ChangeSetsOf(heap, o) :
          /\ heap[c].stack = o
          /\ stack_id(heap, metas, c) = stack_id(heap, metas, o)
    /\ \A a \in Registered : \A b \in Registered :
          a # b => ChangeSetsOf(heap, a) \cap ChangeSetsOf(heap, b) = {}

C7_Witness ==
    \E a \in Registered : \E b \in Registered :
        /\ a # b
        /\ stack_name(heap, metas, a) = stack_name(heap, metas, b)
        /\ ChangeSetsOf(heap, a) # {}

\* C8: the ChangeSetId of a registered stack is unset while no
\* ExecuteChangeSet has succeeded against the stack, and is otherwise the id
\* of the change set last executed against it.
C8_CurrentChangeSet ==
    \A o \in Registered : change_set_id(heap, metas, o) = executed[o]

\* C9: a successful DeleteChangeSet takes the change set that the lookup
\* resolved out of its target stack's list and keeps the others in order.
C9_DeleteRemovesResolved ==
    [][(response'.op = "DeleteChangeSet" /\ response'.kind = "ok") =>
          LET c == response'.target
              o == heap[c].stack
          IN heap'[o].change_sets = SelectSeq(heap[o].change_sets, LAMBDA x : x # c)]_vars

\* the entries of an export list under the name n
EntriesNamed(es, n) == {i \in 1..Len(es) : es[i].Name = n}
\* the registered stacks with an output exported under the name n
Exporters(n) ==
    {o \in Registered :
        \E i \in 1..Len(heap[o].template.Outputs) : heap[o].template.Outputs[i].v.Export = n}

\* C10 as stated: when two registered stacks export under one name,
\* ListExports returns exactly one entry of that name.
C10_OneEntryPerName ==
    (response.op = "ListExports" /\ Cardinality(Exporters("Shared")) >= 2) =>
        Cardinality(EntriesNamed(response.Exports, "Shared")) = 1

\* C10 as amended: ListExports returns one entry of that name for each
\* registered stack exporting under it, in registry order; the map of
\* exports by name holds one entry for the name, that of the stack iterated
\* last; both stacks are registered.
C10_OneEntryPerExporter ==
    (response.op = "ListExports") =>
        LET es == response.Exports
            named == SelectSeq(es, LAMBDA e : e.Name = "Shared")
            ids == SelectSeq([i \in 1..Len(stacks) |-> stacks[i].k],
                             LAMBDA k : Get(stacks, k) \in Exporters("Shared"))
            map == exports_map(stacks, heap, metas)
        IN /\ [i \in 1..Len(named) |-> named[i].ExportingStackId] = ids
           /\ Cardinality(EntriesNamed(Values(map), "Shared")) =
                 (IF ids = << >> THEN 0 ELSE 1)
           /\ ids # << >> =>
                 Get(map, "Shared").ExportingStackId = ids[Len(ids)]

C10_Witness ==
    /\ response.op = "ListExports"
    /\ Cardinality(Exporters("Shared")) >= 2
    /\ Cardinality(EntriesNamed(response.Exports, "Shared")) = 2

\* the entries that the outputs declaring an Export name give: one for each
\* such output of each registered stack
DeclaredExports ==
    UNION {{[ExportingStackId |-> stack_id(heap, metas, o),
             Name |-> heap[o].template.Outputs[i].v.Export,
             Value |-> outputs(heap, metas, o)[i].OutputValue] :
               i \in {j \in 1..Len(heap[o].template.Outputs) :
                        heap[o].template.Outputs[j].v.Export # None}} :
           o \in Registered}

\* C11: every entry that ListExports returns is the entry of an output of a
\* registered stack that declares an Export name, with that name, the
\* output's value and the stack's id; an output that declares no Export name
\* gives no entry.
C11_ExportsDeclared ==
    (response.op = "ListExports") =>
        \A i \in 1..Len(response.Exports) : response.Exports[i] \in DeclaredExports

\* ------------------------------------------------------------------------
\* Name resolution: one stack, created from a template that declares each of
\* the names N and K in any set of layers, with any of the explicit
\* parameter lists below, and then asked for a name
\* ------------------------------------------------------------------------
LayerNames == {"N", "K"}
ResourceIds3 == LayerNames \cup {"Z"}

\* what the template layer declares under the name n
LayerEntry(layer, n) ==
    CASE layer = "Resources" -> Resource("X")
      [] layer = "Parameters" -> Param("d-" \o n)
      [] layer = "Conditions" -> "c-" \o n
      [] layer = "Mappings" -> "m-" \o n

\* the dict of a template layer that declares the names of S
Named(S, layer) ==
    LET ks == SelectSeq(<<"N", "K">>, LAMBDA n : n \in S)
    IN [i \in 1..Len(ks) |-> [k |-> ks[i], v |-> LayerEntry(layer, ks[i])]]

LayeredTemplates ==
    {Template(Named(r, "Resources"), Named(p, "Parameters"), Named(c, "Conditions"),
              Named(mp, "Mappings"), << >>) :
        r \in SUBSET LayerNames, p \in SUBSET LayerNames,
        c \in SUBSET LayerNames, mp \in SUBSET LayerNames}

ExplicitMembers ==
    {<< >>,
     <<Member("N", "e1")>>,
     <<Member("K", "e1")>>,
     <<Member("N", "e1"), Member("K", "e2")>>,
     <<Member("N", "e1"), Member("N", "e2")>>,
     <<Member("N", None)>>}

\* Stack.resource(resource_id)
resource(o, rid) ==
    LET found == _lookup(resources(heap, metas, o), rid)
        r == [Resp("resource", "ok") EXCEPT !.target = o, !.resource_id = rid]
    IN /\ response' = IF found = << >> THEN [r EXCEPT !.kind = "raise"]
                      ELSE [r EXCEPT !.Items = found]
       /\ UNCHANGED <<stacks, heap, metas, uid, ever_registered, executed>>

CreateLayeredStack ==
    /\ heap = << >>
    /\ \E tpl \in LayeredTemplates, members \in ExplicitMembers, engine_ok \in BOOLEAN :
          create_stack("A", None, tpl, members, engine_ok)
    /\ UNCHANGED threads

ResolveName ==
    /\ \E o \in Range(Values(stacks)), rid \in ResourceIds3 : resource(o, rid)
    /\ UNCHANGED threads

NextResolve ==
    \/ CreateLayeredStack
    \/ ResolveName

SpecResolve == Init /\ [][NextResolve]_vars

\* C12: the entry resolved for a name is that of the first layer declaring
\* the name, in the order template resources, explicit parameters,
\* conditions, mappings, template defaults; a name declared in no layer is
\* not resolved.
C12_FirstLayerWins ==
    (response.op = "resource") =>
        LET o == response.target
            rid == response.resource_id
            t == heap[o].template
            ps == metas[heap[o].metadata].Parameters
            explicit == {ps[i].ParameterValue :
                            i \in {j \in 1..Len(ps) : ps[j].ParameterKey = rid}}
            found == response.kind = "ok" /\ Len(response.Items) = 1
            e == response.Items[1]
            pseudo(val) == found /\ e.Type = "Parameter" /\ e.LogicalResourceId = rid
                                 /\ e.Value = val
        IN IF Has(t.Resources, rid)
           THEN found /\ e.Type = Get(t.Resources, rid).Type /\ e.LogicalResourceId = rid
           ELSE IF explicit # {}
           THEN \E val \in explicit : pseudo(val)
           ELSE IF Has(t.Conditions, rid) THEN pseudo(Get(t.Conditions, rid))
           ELSE IF Has(t.Mappings, rid) THEN pseudo(Get(t.Mappings, rid))
           ELSE IF Has(t.Parameters, rid) THEN pseudo(Get(t.Parameters, rid).Default)
           ELSE response.kind = "raise"

\* an explicit parameter under a name that is also a condition, a mapping
\* and a parameter with a default
C12_Witness ==
    /\ response.op = "resource"
    /\ response.kind = "ok"
    /\ LET t == heap[response.target].template
           rid == response.resource_id
       IN /\ ~ Has(t.Resources, rid)
          /\ Has(t.Conditions, rid) /\ Has(t.Mappings, rid) /\ Has(t.Parameters, rid)
          /\ \E i \in 1..Len(metas[heap[response.target].metadata].Parameters) :
                metas[heap[response.target].metadata].Parameters[i].ParameterKey = rid
          /\ response.Items[1].Value = "e1"

\* the pairs of the longest run of indices 1..k, k below the index limit,
\* at which the encoding members has a parameter key
ContiguousRun(members) ==
    LET ks == {n \in 0..Len(members) :
                  /\ n < ParamIndexLimit
                  /\ \A i \in 1..n : ~ Falsy(members[i].ParameterKey)}
        k == CHOOSE n \in ks : \A x \in ks : x <= n
    IN SubSeq(members, 1, k)

\* C13: the parameter list of every stack and change-set object holds one
\* pair for each index of the longest contiguous run of parameter keys that
\* its request sent, in index order.
C13_ParametersParsed ==
    \A o \in 1..Len(heap) :
        metas[heap[o].metadata].Parameters =
            ContiguousRun(metas[heap[o].metadata].Members)

\* ------------------------------------------------------------------------
\* Read endpoints
\* ------------------------------------------------------------------------
\* Stack.describe_details, as far as the properties read it; the Outputs are
\* those that Stack.outputs returns
describe_details(h, m, o) ==
    [StackId |-> stack_id(h, m, o), StackName |-> stack_name(h, m, o),
     StackStatus |-> status(h, m, o), ChangeSetId |-> change_set_id(h, m, o),
     Outputs |-> outputs(h, m, o), Parameters |-> stack_parameters(h, m, o, TRUE)]

\* a read answers and leaves everything but the heap as it is
Answer(r, h) ==
    /\ response' = r
    /\ heap' = h
    /\ UNCHANGED <<stacks, metas, uid, ever_registered, executed>>

describe_stacks(name) ==
    LET matched == SelectSeq(Values(stacks),
                             LAMBDA o : name \in {None, stack_name(heap, metas, o)})
        r == [Resp("DescribeStacks", "ok") EXCEPT
                 !.stack_name = name,
                 !.target = IF matched = << >> THEN 0 ELSE matched[1]]
    IN IF ~ Falsy(name) /\ matched = << >>
       THEN Answer(error_response(r, 400, "ValidationError"), heap)
       ELSE Answer([r EXCEPT !.Items = [i \in 1..Len(matched) |->
                                          describe_details(heap, metas, matched[i])]],
                   ReadOutputs(heap, metas, matched))

list_stacks(filter) ==
    LET matched == SelectSeq(Values(stacks),
                             LAMBDA o : filter \in {None, status(heap, metas, o)})
        summary(o) == [StackId |-> stack_id(heap, metas, o),
                       StackName |-> stack_name(heap, metas, o),
                       StackStatus |-> status(heap, metas, o)]
    IN Answer([Resp("ListStacks", "ok") EXCEPT
                  !.Items = [i \in 1..Len(matched) |-> summary(matched[i])]],
              ReadOutputs(heap, metas, matched))

describe_stack_resource(name, resource_id) ==
    LET stack == find_stack(stacks, heap, metas, name)
        r == [Resp("DescribeStackResource", "ok") EXCEPT
                 !.stack_name = name, !.resource_id = resource_id, !.target = stack]
    IN IF stack = 0
       THEN Answer(error_response(r, 404, "ResourceNotFoundException"), heap)
       ELSE LET details == _lookup(heap[stack].resource_states, resource_id)
            IN IF details = << >> THEN Answer([r EXCEPT !.kind = "raise"], heap)
               ELSE Answer([r EXCEPT !.Items = details], heap)

\* the keys of a stack's resource_states
ResourceStateIds(obj) == [i \in 1..Len(obj.resource_states) |-> obj.resource_states[i].k]

\* describe_stack_resources, answering under the name op
stack_resources(op, name, resource_id, phys_resource_id) ==
    LET stack == find_stack(stacks, heap, metas, name)
        r == [Resp(op, "ok") EXCEPT
                 !.stack_name = name, !.resource_id = resource_id, !.target = stack]
    IN IF ~ Falsy(phys_resource_id) /\ ~ Falsy(name)
       THEN Answer(error_response(r, 0, None), heap)
       ELSE IF stack = 0
       THEN \* line 338 reads resource_states of None
            Answer([r EXCEPT !.kind = "raise"], heap)
       ELSE LET ids == SelectSeq(ResourceStateIds(heap[stack]),
                                 LAMBDA res_id : resource_id \in {res_id, None})
            IN Answer([r EXCEPT !.Items = Flatten(
                          [i \in 1..Len(ids) |->
                              _lookup(heap[stack].resource_states, ids[i])])],
                      heap)

describe_stack_resources(name, resource_id, phys_resource_id) ==
    stack_resources("DescribeStackResources", name, resource_id, phys_resource_id)

list_stack_resources(name, resource_id, phys_resource_id) ==
    stack_resources("ListStackResources", name, resource_id, phys_resource_id)

describe_change_set(cs_name, name) ==
    LET change_set == find_change_set(stacks, heap, metas, cs_name, name)
        r == [Resp("DescribeChangeSet", "ok") EXCEPT
                 !.stack_name = name, !.cs_name = cs_name, !.target = change_set]
    IN IF change_set = 0
       THEN Answer(error_response(r, 0, None), heap)
       ELSE Answer([r EXCEPT !.Items = <<metas[heap[change_set].metadata]>>], heap)

describe_stack_events(name) ==
    LET matched == SelectSeq(Values(stacks),
                             LAMBDA o : name \in {None, stack_name(heap, metas, o),
                                                  stack_id(heap, metas, o)})
    IN Answer([Resp("DescribeStackEvents", "ok") EXCEPT
                  !.stack_name = name,
                  !.Items = Flatten([i \in 1..Len(matched) |-> heap[matched[i]].events])],
              heap)

\* ------------------------------------------------------------------------
\* All endpoints, reads included, over a registry kept small: a request
\* that constructs objects is sent while the number of objects stays within
\* MaxReadObjs
\* ------------------------------------------------------------------------
LookupNames == StackNames \cup {None}
LogicalResourceIds == {None, "R", "Z"}
PhysicalResourceIds == {None, "phys-R"}
StackStatusFilters == {None, "CREATE_COMPLETE", "CREATE_FAILED"}

Few(n) == Len(heap) + n <= MaxReadObjs

CreateStackFew ==
    /\ Few(1)
    /\ \E name \in StackNames, body \in Bodies, engine_ok \in BOOLEAN :
          create_stack(name, None, body.tpl, body.members, engine_ok)
    /\ UNCHANGED threads

UpdateStackFew ==
    /\ Few(1)
    /\ \E name \in StackNames, body \in Bodies, engine_ok \in BOOLEAN :
          update_stack(name, None, body.tpl, body.members, engine_ok)
    /\ UNCHANGED threads

CreateChangeSetFew ==
    /\ \E name \in StackNames, cs_name \in ChangeSetNames, body \in Bodies :
           /\ Few(IF find_stack(stacks, heap, metas, name) = 0 THEN 2 ELSE 1)
           /\ create_change_set(name, cs_name, None, body.tpl, body.members)
    /\ UNCHANGED threads

DescribeStacks ==
    /\ \E name \in LookupNames : describe_stacks(name)
    /\ UNCHANGED threads

ListStacks ==
    /\ \E filter \in StackStatusFilters : list_stacks(filter)
    /\ UNCHANGED threads

DescribeStackResource ==
    /\ \E name \in LookupNames, rid \in LogicalResourceIds :
           describe_stack_resource(name, rid)
    /\ UNCHANGED threads

DescribeStackResources ==
    /\ \E name \in LookupNames, rid \in LogicalResourceIds, phys \in PhysicalResourceIds :
           describe_stack_resources(name, rid, phys)
    /\ UNCHANGED threads

ListStackResources ==
    /\ \E name \in LookupNames, rid \in LogicalResourceIds, phys \in PhysicalResourceIds :
           list_stack_resources(name, rid, phys)
    /\ UNCHANGED threads

DescribeChangeSet ==
    /\ \E cs_name \in ChangeSetRefs, name \in LookupNames : describe_change_set(cs_name, name)
    /\ UNCHANGED threads

DescribeStackEvents ==
    /\ \E name \in LookupNames \cup {stack_id(heap, metas, o) : o \in Range(Values(stacks))} :
           describe_stack_events(name)
    /\ UNCHANGED threads

NextReads ==
    \/ CreateStackFew
    \/ DeleteStack
    \/ UpdateStackFew
    \/ CreateChangeSetFew
    \/ ExecuteChangeSet
    \/ DeleteChangeSet
    \/ DescribeStacks
    \/ ListStacks
    \/ DescribeStackResource
    \/ DescribeStackResources
    \/ ListStackResources
    \/ DescribeChangeSet
    \/ DescribeStackEvents
    \/ ListExports

SpecReads == Init /\ [][NextReads]_vars

\* the operations that look up a stack, a change set or a resource
LookupOps ==
    {"UpdateStack", "DeleteStack", "DescribeStacks", "DescribeStackResource",
     "DescribeStackResources", "ListStackResources", "ExecuteChangeSet",
     "DescribeChangeSet", "DeleteChangeSet"}

\* the request answered by r named a stack or a change set that the lookup
\* did not find, or a resource that the stack found has no state for
TargetMissing(r, h) ==
    /\ r.op \in LookupOps
    /\ r.op = "DescribeStacks" => r.stack_name # None
    /\ \/ r.target = 0
       \/ /\ r.op = "DescribeStackResource"
          /\ ~ Has(h[r.target].resource_states, r.resource_id)

\* C14: a lookup operation whose target does not exist answers with an
\* error response or does nothing; no exception leaves the handler, and the
\* registry and all stacks stay as they were.
C14_LookupFailures ==
    [][TargetMissing(response', heap) =>
          /\ response'.kind \in {"error", "ok"}
          /\ stacks' = stacks /\ heap' = heap /\ metas' = metas]_vars

\* C15: a DeleteChangeSet leaves the resource states, the status, the events
\* and the template of its target stack as they were, changes nothing of any
\* other object and nothing of the registry.
C15_DeleteChangeSetFrame ==
    [][(response'.op = "DeleteChangeSet") =>
          /\ stacks' = stacks
          /\ metas' = metas
          /\ Len(heap') = Len(heap)
          /\ \A o \in 1..Len(heap) :
                /\ heap'[o].resource_states = heap[o].resource_states
                /\ heap'[o].events = heap[o].events
                /\ heap'[o].template = heap[o].template
                /\ (response'.kind # "ok" \/ o # heap[response'.target].stack)
                      => heap'[o] = heap[o]]_vars

\* the change set deleted is the one last executed against its stack, which
\* has the resource states of the execution
C15_Witness ==
    /\ response.op = "DeleteChangeSet"
    /\ response.kind = "ok"
    /\ LET c == response.target
           o == heap[c].stack
       IN /\ executed[o] = change_set_id(heap, metas, c)
          /\ c \notin ChangeSetsOf(heap, o)
          /\ heap[o].resource_states # << >>

\* the StackChangeSet objects of heap h, and the data one records
ChangeSetObjs(h) == {c \in 1..Len(h) : h[c].cls = "StackChangeSet"}
Recorded(h, m, c) ==
    [ChangeSetId |-> m[h[c].metadata].ChangeSetId,
     ChangeSetName |-> m[h[c].metadata].ChangeSetName,
     StackId |-> m[h[c].metadata].StackId,
     Parameters |-> m[h[c].metadata].Parameters,
     StackStatus |-> m[h[c].metadata].StackStatus]

\* C17: an UpdateStack that failed, an ExecuteChangeSet and a further
\* CreateChangeSet leave the id, the name, the StackId, the parameters and
\* the stack-status field of every existing change set as they were.
C17_ChangeSetDataKept ==
    [][(\/ response'.op = "UpdateStack" /\ response'.engine = "raise"
        \/ response'.op = "ExecuteChangeSet"
        \/ response'.op = "CreateChangeSet") =>
          \A c \in ChangeSetObjs(heap) :
              Recorded(heap', metas', c) = Recorded(heap, metas, c)]_vars

\* C18: the events of a registered stack grow at the front only, a change
\* of its status comes with exactly one new event, and the newest event of
\* a stack that has events carries the stack's status.
C18_EventsFollowStatus ==
    [][/\ \A o \in Range(Values(stacks')) :
             heap'[o].events # << >> =>
                 heap'[o].events[1].ResourceStatus = status(heap', metas', o)
       /\ \A o \in Registered :
             LET old == heap[o].events
                 new == heap'[o].events
             IN /\ Len(new) >= Len(old)
                /\ SubSeq(new, Len(new) - Len(old) + 1, Len(new)) = old
                /\ status(heap', metas', o) # status(heap, metas, o) =>
                      Len(new) = Len(old) + 1]_vars

\* a registered stack whose status changed twice
C18_Witness ==
    \E o \in Registered :
        /\ Len(heap[o].events) = 2
        /\ heap[o].events[1].ResourceStatus # heap[o].events[2].ResourceStatus
        /\ heap[o].events[1].ResourceStatus = status(heap, metas, o)

\* C16: a change set that DescribeChangeSet finds for a request naming a
\* stack is in the change-set list of a registered stack of that name.
C16_LookupNarrows ==
    (/\ response.op = "DescribeChangeSet"
     /\ response.kind = "ok"
     /\ response.stack_name # None) =>
        \E o \in Registered :
            /\ stack_name(heap, metas, o) = response.stack_name
            /\ response.target \in ChangeSetsOf(heap, o)

\* the operations that only read
ReadOps ==
    {"DescribeStacks", "ListStacks", "DescribeStackResource",
     "DescribeStackResources", "ListStackResources", "DescribeChangeSet",
     "DescribeStackEvents", "ListExports"}

\* C19: a read operation, whether it succeeds or fails, leaves the registry
\* and every object as they were: templates with their outputs, parameters,
\* statuses, resource states, events and change-set lists.
C19_ReadsChangeNothing ==
    [][(response'.op \in ReadOps) =>
          /\ stacks' = stacks
          /\ heap' = heap
          /\ metas' = metas]_vars

\* ------------------------------------------------------------------------
\* Two CreateChangeSet requests handled concurrently: the handler takes no
\* lock, so the statements of the two requests interleave. A thread is at
\* the statement it executes next and has the handler's local variables.
\* ------------------------------------------------------------------------
Threads == {"t1", "t2"}

CreateChangeSetRequest(name, cs_name, body) ==
    [op |-> "CreateChangeSet", pc |-> "find", name |-> name, cs_name |-> cs_name,
     body |-> body, req_params |-> 0, stack |-> 0, change_set |-> 0]

InitConcurrent ==
    /\ stacks = << >>
    /\ heap = << >>
    /\ metas = << >>
    /\ uid = 0
    /\ response = Resp(None, "ok")
    /\ ever_registered = {}
    /\ executed = << >>
    /\ threads \in {[t \in Threads |-> CreateChangeSetRequest(names[t], css[t], body)] :
                      names \in [Threads -> StackNames],
                      css \in [Threads -> ChangeSetNames],
                      body \in Bodies}

\* lines 352-358: the request dict, and stack = existing = find_stack(stack_name)
create_change_set_find(t) ==
    LET th == threads[t]
        existing == find_stack(stacks, heap, metas, th.name)
    IN /\ th.pc = "find"
       /\ metas' = Append(metas, ReqParams(th.name, None, th.cs_name, th.body.members))
       /\ threads' = [threads EXCEPT ![t] =
                         [th EXCEPT !.req_params = Len(metas) + 1,
                                    !.stack = existing,
                                    !.pc = IF existing = 0 THEN "construct"
                                           ELSE "change_set"]]
       /\ UNCHANGED <<stacks, heap, uid, response, ever_registered, executed>>

\* lines 361-363: stack = Stack(req_params, empty_stack_template)
create_change_set_construct(t) ==
    LET th == threads[t]
        s1 == StackInit(State, th.req_params, empty_stack_template(th.body.tpl), "Stack")
    IN /\ th.pc = "construct"
       /\ Commit(s1)
       /\ executed' = Grow(executed, s1.heap)
       /\ threads' = [threads EXCEPT ![t] =
                         [th EXCEPT !.stack = Len(s1.heap), !.pc = "register"]]
       /\ UNCHANGED <<stacks, response, ever_registered>>

\* line 364: state.stacks[stack.stack_id] = stack
create_change_set_register(t) ==
    LET th == threads[t]
    IN /\ th.pc = "register"
       /\ stacks' = register(stacks, heap, metas, th.stack)
       /\ ever_registered' = ever_registered \cup {th.stack}
       /\ threads' = [threads EXCEPT ![t].pc = "change_set"]
       /\ UNCHANGED <<heap, metas, uid, response, executed>>

\* line 365: change_set = StackChangeSet(req_params, template)
create_change_set_init(t) ==
    LET th == threads[t]
        s2 == StackChangeSetInit(State, stacks, th.req_params, th.body.tpl)
    IN /\ th.pc = "change_set"
       /\ Commit(s2)
       /\ executed' = Grow(executed, s2.heap)
       /\ threads' = [threads EXCEPT ![t] =
                         [th EXCEPT !.change_set = Len(s2.heap), !.pc = "append"]]
       /\ UNCHANGED <<stacks, response, ever_registered>>

\* lines 366-367: stack.change_sets.append(change_set), and the return
create_change_set_append(t) ==
    LET th == threads[t]
    IN /\ th.pc = "append"
       /\ heap' = [heap EXCEPT ![th.stack].change_sets = Append(@, th.change_set)]
       /\ threads' = [threads EXCEPT ![t].pc = "done"]
       /\ UNCHANGED <<stacks, metas, uid, response, ever_registered, executed>>

\* a step of one of the requests in flight
FindStack == \E t \in DOMAIN threads : create_change_set_find(t)
ConstructStack == \E t \in DOMAIN threads : create_change_set_construct(t)
RegisterStack == \E t \in DOMAIN threads : create_change_set_register(t)
ConstructChangeSet == \E t \in DOMAIN threads : create_change_set_init(t)
AppendChangeSet == \E t \in DOMAIN threads : create_change_set_append(t)

NextConcurrent ==
    \/ FindStack
    \/ ConstructStack
    \/ RegisterStack
    \/ ConstructChangeSet
    \/ AppendChangeSet

SpecConcurrent == InitConcurrent /\ [][NextConcurrent]_vars

\* C20: when both requests, sent for one stack name that no stack had, have
\* returned, one stack of that name is registered, and both change sets are
\* in its list and have it as their target.
C20_OnePlaceholder ==
    (/\ threads # << >>
     /\ \A t \in Threads : threads[t].pc = "done"
     /\ threads["t1"].name = threads["t2"].name) =>
        LET named == {o \in Registered :
                         stack_name(heap, metas, o) = threads["t1"].name}
        IN /\ Cardinality(named) = 1
           /\ \A o \in named : \A t \in Threads :
                 /\ threads[t].change_set \in ChangeSetsOf(heap, o)
                 /\ heap[threads[t].change_set].stack = o

\* ------------------------------------------------------------------------
\* A CreateChangeSet and a DeleteChangeSet handled concurrently, after one
\* CreateChangeSet that was handled alone: thread t1 creates, thread t2
\* deletes, a change set being named by its name
\* ------------------------------------------------------------------------
DeleteChangeSetRequest(name, cs_name) ==
    [op |-> "DeleteChangeSet", pc |-> "lookup", name |-> name, cs_name |-> cs_name,
     change_set |-> 0, kept |-> << >>, result |-> None]

\* the request that is handled before the concurrent ones arrive
CreateChangeSetAlone ==
    /\ threads = << >>
    /\ heap = << >>
    /\ \E name \in StackNames, cs_name \in ChangeSetNames, body \in Bodies :
          create_change_set(name, cs_name, None, body.tpl, body.members)
    /\ UNCHANGED threads

\* the two requests arrive
Arrive ==
    /\ threads = << >>
    /\ heap # << >>
    /\ \E name \in StackNames, cs_name \in ChangeSetNames, body \in Bodies,
          del_name \in LookupNames, del_cs_name \in ChangeSetNames :
          threads' = [t \in Threads |->
                        IF t = "t1" THEN CreateChangeSetRequest(name, cs_name, body)
                        ELSE DeleteChangeSetRequest(del_name, del_cs_name)]
    /\ UNCHANGED <<stacks, heap, metas, uid, response, ever_registered, executed>>

\* lines 413-417: change_set = find_change_set(cs_name, stack_name), and the
\* error response when there is none
delete_change_set_lookup(t) ==
    LET th == threads[t]
        change_set == find_change_set(stacks, heap, metas, th.cs_name, th.name)
    IN /\ th.pc = "lookup"
       /\ threads' = [threads EXCEPT ![t] =
                         [th EXCEPT !.change_set = change_set,
                                    !.pc = IF change_set = 0 THEN "done" ELSE "filter",
                                    !.result = IF change_set = 0 THEN "error" ELSE None]]
       /\ UNCHANGED <<stacks, heap, metas, uid, response, ever_registered, executed>>

\* line 418, right-hand side: the list comprehension over the list as it is
delete_change_set_filter(t) ==
    LET th == threads[t]
        stack == heap[th.change_set].stack
    IN /\ th.pc = "filter"
       /\ threads' = [threads EXCEPT ![t] =
                         [th EXCEPT !.kept = keep_change_sets(heap, metas,
                                                 heap[stack].change_sets, th.cs_name),
                                    !.pc = "assign"]]
       /\ UNCHANGED <<stacks, heap, metas, uid, response, ever_registered, executed>>

\* line 418, the assignment, and the return of line 419
delete_change_set_assign(t) ==
    LET th == threads[t]
        stack == heap[th.change_set].stack
    IN /\ th.pc = "assign"
       /\ heap' = [heap EXCEPT ![stack].change_sets = th.kept]
       /\ threads' = [threads EXCEPT ![t] = [th EXCEPT !.pc = "done", !.result = "ok"]]
       /\ UNCHANGED <<stacks, metas, uid, response, ever_registered, executed>>

LookupChangeSet == \E t \in DOMAIN threads : delete_change_set_lookup(t)
FilterChangeSets == \E t \in DOMAIN threads : delete_change_set_filter(t)
AssignChangeSets == \E t \in DOMAIN threads : delete_change_set_assign(t)

InFlight == threads # << >>

NextConcurrentDelete ==
    \/ CreateChangeSetAlone
    \/ Arrive
    \/ FindStack
    \/ ConstructStack
    \/ RegisterStack
    \/ ConstructChangeSet
    \/ AppendChangeSet
    \/ LookupChangeSet
    \/ FilterChangeSets
    \/ AssignChangeSets

SpecConcurrentDelete == Init /\ [][NextConcurrentDelete]_vars

\* the create of t1 and the delete of t2 have returned, the delete with
\* success, and were about two change sets, of different names, of one stack
BothCompleted ==
    /\ InFlight
    /\ threads["t1"].op = "CreateChangeSet" /\ threads["t1"].pc = "done"
    /\ threads["t2"].op = "DeleteChangeSet" /\ threads["t2"].pc = "done"
    /\ threads["t2"].result = "ok"
    /\ threads["t1"].cs_name # threads["t2"].cs_name
    /\ threads["t1"].change_set # threads["t2"].change_set
    /\ heap[threads["t2"].change_set].stack = threads["t1"].stack
    /\ heap[threads["t1"].change_set].stack = threads["t1"].stack

\* C21: after a CreateChangeSet and a DeleteChangeSet of another change set
\* of the same stack have both completed, in whatever order their steps
\* ran, the created change set is in the stack's list and the deleted one is
\* not.
C21_NoLostUpdate ==
    BothCompleted =>
        /\ threads["t1"].change_set \in ChangeSetsOf(heap, threads["t1"].stack)
        /\ threads["t2"].change_set \notin ChangeSetsOf(heap, threads["t1"].stack)

====
